---- MODULE Spec2Model ----
(***************************************************************************)
(* Verification model of the dependency-graph construction of the audit    *)
(* command (xray/commands/audit/sca/java/javautils.go) and of the scanner  *)
(* runner (xray/commands/audit/jasrunner.go).                              *)
(*                                                                         *)
(* Three state machines share the module:                                  *)
(*   SpecJas     runJasScannersAndSetResults                               *)
(*   SpecDepTree getGraphFromDepTree (plugin-tree model)                   *)
(*   SpecGav     createGavDependencyTree (requested-by model)              *)
(* Each specification starts the other two machines idle and never moves   *)
(* them.                                                                   *)
(***************************************************************************)
EXTENDS Naturals, Sequences, FiniteSets, TLC

VARIABLES
  \* ---- runJasScannersAndSetResults
  jasEnv,        \* the arguments and the outcome of every external call
  jasPc,         \* position in the function body
  jasErr,        \* the named result err: a sequence of messages, <<>> is nil
  jasCalls,      \* the external calls made so far, in order
  jasHeadline,   \* the messages given to progress.SetHeadlineMsg, in order
  jasResults,    \* the fields of scanResults assigned so far
  jasDeferred    \* TRUE once the deferred cleanup closure is registered

VARIABLES
  \* ---- getGraphFromDepTree
  dtOutput,      \* depTreeOutput: the paths it lists, one per line
  dtFiles,       \* what each listed path holds: "unreadable", "invalid", "tree"
  dtPc,          \* position in getGraphFromDepTree
  dtReads,       \* the paths given to os.ReadFile so far, in order
  dtModules,     \* parseDepTreeFiles: the modules decoded so far
  dtErr,         \* the named result err, "" is nil
  dtNodes,       \* the heap of GraphNodes: [Id, Parent, Nodes], 0 is nil
  dtStack,       \* the active populateDependencyTree calls, innermost last
  dtGraph,       \* the named result depsGraph: the roots, in order
  dtUniqueSet,   \* uniqueDepsSet
  dtUniqueDeps   \* the named result uniqueDeps, as the set of its elements

VARIABLES
  \* ---- createGavDependencyTree
  gavModules,    \* generatedBuildsInfos[0].Modules
  gavPc,         \* position in createGavDependencyTree / addModuleTree
  gavTrees,      \* the local slice "modules": the roots returned so far
  gavModuleTree, \* addModuleTree's moduleTree
  gavNodes,      \* the heap of GraphNodes: [Id, Nodes]
  gavTodo,       \* the records of module.Dependencies not yet classified
  gavDirect,     \* directDependencies
  gavMultimap,   \* parentToChildren.multimap
  gavDirectTodo, \* the keys of directDependencies not yet ranged over
  gavStack,      \* the active populateTransitiveDependencies calls
  gavUniqueSet,  \* uniqueDepsSet
  gavUniqueDeps, \* the returned unique ids, as the set of its elements
  gavRun,        \* 1 in the first call on the build-info, 2 in the second
  gavFirst       \* <<what the first call returned>>, once it has

jasVars == <<jasEnv, jasPc, jasErr, jasCalls, jasHeadline, jasResults, jasDeferred>>

dtVars == <<dtOutput, dtFiles, dtPc, dtReads, dtModules, dtErr, dtNodes, dtStack,
            dtGraph, dtUniqueSet, dtUniqueDeps>>

gavVars == <<gavModules, gavPc, gavTrees, gavModuleTree, gavNodes, gavTodo,
             gavDirect, gavMultimap, gavDirectTodo, gavStack, gavUniqueSet,
             gavUniqueDeps, gavRun, gavFirst>>

vars == <<jasVars, dtVars, gavVars>>

GavPackageTypeIdentifier == "gav://"

\* A coordinate as a node Id.
Gav(id) == GavPackageTypeIdentifier \o id

\* The elements of a sequence.
Range(s) == {s[i] : i \in 1..Len(s)}

\* All sequences over S of length at most n.
SeqUpTo(S, n) == UNION {[1..k -> S] : k \in 0..n}

\* What a step of one machine leaves alone: the other machines.
JasFrame == UNCHANGED <<dtVars, gavVars>>

DtFrame == UNCHANGED <<jasVars, gavVars>>

GavFrame == UNCHANGED <<jasVars, dtVars>>

(***************************************************************************)
(* runJasScannersAndSetResults                                             *)
(***************************************************************************)

\* serverDetails: nil, or a ServerDetails with its Url.
ServerDetailsValues ==
  { [isNil |-> TRUE,  Url |-> ""],
    [isNil |-> FALSE, Url |-> ""],
    [isNil |-> FALSE, Url |-> "https://acme.jfrog.io/"] }

ScanNames == {"applicability", "secrets", "iac", "sast"}

\* Everything the function receives from outside: its arguments and what
\* each callee returns.
JasEnvs ==
  [ serverDetails  : ServerDetailsValues,
    progressIsNil  : BOOLEAN,
    newScannerErr  : BOOLEAN,                 \* jas.NewJasScanner fails
    scanErr        : [ScanNames -> BOOLEAN],   \* Run<X>Scan fails
    cleanupErr     : BOOLEAN,                 \* ScannerDirCleanupFunc fails
    sastSupported  : BOOLEAN ]                \* AnalyzerManagerVersion.AtLeast(min)

\* errors.Join: nil when every argument is nil, else the non-nil ones joined.
errorsJoin(e1, e2) == e1 \o e2

\* progress.SetHeadlineMsg(msg), guarded by progress != nil.
SetHeadlineMsg(msg) ==
  jasHeadline' = IF jasEnv.progressIsNil THEN jasHeadline ELSE Append(jasHeadline, msg)

\* Where control goes on "return": into the deferred closure when it is
\* registered, else out of the function.
jasReturn == IF jasDeferred THEN "deferred" ELSE "returned"

JasIdle ==
  /\ jasEnv = [serverDetails |-> [isNil |-> TRUE, Url |-> ""], progressIsNil |-> TRUE,
               newScannerErr |-> FALSE, scanErr |-> [n \in ScanNames |-> FALSE],
               cleanupErr |-> FALSE, sastSupported |-> FALSE]
  /\ jasPc = "idle"
  /\ jasErr = <<>>
  /\ jasCalls = <<>>
  /\ jasHeadline = <<>>
  /\ jasResults = {}
  /\ jasDeferred = FALSE

JasStart ==
  /\ jasEnv \in JasEnvs
  /\ jasPc = "start"
  /\ jasErr = <<>>
  /\ jasCalls = <<>>
  /\ jasHeadline = <<>>
  /\ jasResults = {}
  /\ jasDeferred = FALSE

\* Lines 19-22: no server details, nothing runs.
JasNoServer ==
  /\ jasPc = "start"
  /\ jasEnv.serverDetails.isNil \/ Len(jasEnv.serverDetails.Url) = 0
  /\ jasPc' = "returned"
  /\ UNCHANGED <<jasEnv, jasErr, jasCalls, jasHeadline, jasResults, jasDeferred>>
  /\ JasFrame

\* Lines 23-30: create the scanner; on success register the deferred cleanup.
JasNewScanner ==
  /\ jasPc = "start"
  /\ ~(jasEnv.serverDetails.isNil \/ Len(jasEnv.serverDetails.Url) = 0)
  /\ jasCalls' = Append(jasCalls, "NewJasScanner")
  /\ IF jasEnv.newScannerErr
       THEN /\ jasErr' = <<"NewJasScanner">>
            /\ jasPc' = "returned"
            /\ jasDeferred' = FALSE
       ELSE /\ jasErr' = <<>>
            /\ jasPc' = "applicability"
            /\ jasDeferred' = TRUE
  /\ UNCHANGED <<jasEnv, jasHeadline, jasResults>>
  /\ JasFrame

\* One scan step: headline, call, assignment of the result and of err, and
\* the "if err != nil { return }" that follows it.
JasScanStep(at, name, field, msg, next) ==
  /\ jasPc = at
  /\ SetHeadlineMsg(msg)
  /\ jasCalls' = Append(jasCalls, name)
  /\ jasResults' = jasResults \cup {field}
  /\ jasErr' = IF jasEnv.scanErr[name] THEN <<name>> ELSE <<>>
  /\ jasPc' = IF jasEnv.scanErr[name] THEN jasReturn ELSE next
  /\ UNCHANGED <<jasEnv, jasDeferred>>
  /\ JasFrame

\* The same step written without the deferred cleanup: a failing scan leaves
\* the function directly.
RunApplicabilityScanNoDefer ==
  /\ jasPc = "applicability"
  /\ SetHeadlineMsg("Running applicability scanning")
  /\ jasCalls' = Append(jasCalls, "applicability")
  /\ jasResults' = jasResults \cup {"ApplicabilityScanResults"}
  /\ jasErr' = IF jasEnv.scanErr["applicability"] THEN <<"applicability">> ELSE <<>>
  /\ jasPc' = IF jasEnv.scanErr["applicability"] THEN "returned" ELSE "secrets"
  /\ UNCHANGED <<jasEnv, jasDeferred>>
  /\ JasFrame

\* Lines 31-37.
RunApplicabilityScan ==
  JasScanStep("applicability", "applicability", "ApplicabilityScanResults",
              "Running applicability scanning", "secrets")

\* Lines 38-44.
RunSecretsScan ==
  JasScanStep("secrets", "secrets", "SecretsScanResults",
              "Running secrets scanning", "iac")

\* Lines 45-51.
RunIacScan ==
  JasScanStep("iac", "iac", "IacScanResults", "Running IaC scanning", "version")

\* Lines 52-54: SAST needs a recent enough analyzer manager.
JasVersionCheck ==
  /\ jasPc = "version"
  /\ jasPc' = IF jasEnv.sastSupported THEN "sast" ELSE jasReturn
  /\ UNCHANGED <<jasEnv, jasErr, jasCalls, jasHeadline, jasResults, jasDeferred>>
  /\ JasFrame

\* Lines 55-59: the last scan returns whatever it yields.
RunSastScan ==
  /\ jasPc = "sast"
  /\ SetHeadlineMsg("Running SAST scanning")
  /\ jasCalls' = Append(jasCalls, "sast")
  /\ jasResults' = jasResults \cup {"SastResults"}
  /\ jasErr' = IF jasEnv.scanErr["sast"] THEN <<"sast">> ELSE <<>>
  /\ jasPc' = jasReturn
  /\ UNCHANGED <<jasEnv, jasDeferred>>
  /\ JasFrame

\* Lines 27-30: the deferred closure, run on the way out.
JasDeferredCleanup ==
  /\ jasPc = "deferred"
  /\ jasCalls' = Append(jasCalls, "cleanup")
  /\ jasErr' = errorsJoin(jasErr, IF jasEnv.cleanupErr THEN <<"cleanup">> ELSE <<>>)
  /\ jasPc' = "returned"
  /\ UNCHANGED <<jasEnv, jasHeadline, jasResults, jasDeferred>>
  /\ JasFrame

JasStep ==
  \/ JasNoServer
  \/ JasNewScanner
  \/ RunApplicabilityScan
  \/ RunSecretsScan
  \/ RunIacScan
  \/ JasVersionCheck
  \/ RunSastScan
  \/ JasDeferredCleanup

(***************************************************************************)
(* getGraphFromDepTree: the plugin-tree model                              *)
(***************************************************************************)

\* Bounds of the plugin output explored.
MaxFiles == 2
MaxEdges == 3
MaxChildren == 2

\* Raw coordinates used in the module trees.
DepTreeIds == {"r", "x"}

\* The paths an output may list, by line.
DepTreePaths == <<"tree1.json", "tree2.json", "tree3.json", "tree4.json">>

\* depTreeNode values.
DepTreeNodeValues == [Children : SeqUpTo(DepTreeIds, MaxChildren)]

\* The number of child entries of a Nodes map.
RECURSIVE EdgesOfKeys(_, _)
EdgesOfKeys(nodes, keys) ==
  IF keys = {} THEN 0
  ELSE LET k == CHOOSE k \in keys : TRUE
       IN  Len(nodes[k].Children) + EdgesOfKeys(nodes, keys \ {k})

EdgesOf(nodes) == EdgesOfKeys(nodes, DOMAIN nodes)

RECURSIVE EdgesOfModules(_)
EdgesOfModules(ms) ==
  IF ms = <<>> THEN 0 ELSE EdgesOf(Head(ms).Nodes) + EdgesOfModules(Tail(ms))

\* moduleDepTree values with at most n child entries: any subset of the ids
\* as keys of Nodes, children possibly absent from the keys.
ModuleDepTrees(n) ==
  { [Root |-> root, Nodes |-> nodes] :
      root \in DepTreeIds,
      nodes \in { f \in UNION {[D -> DepTreeNodeValues] : D \in SUBSET DepTreeIds} :
                    EdgesOf(f) <= n } }

\* A path cannot be read, holds text that is no JSON, or holds a module tree.
FileKinds == {"unreadable", "invalid", "tree"}

\* strings.Split(strings.TrimSpace(output), "\n"): an empty output still
\* yields one, empty, path.
Split(output) == IF output = <<>> THEN <<"">> ELSE output

outputFilePaths == Split(dtOutput)

\* The file systems an output can meet; the empty path is never readable.
FileSystems(output) ==
  { fs \in [Range(Split(output)) -> FileKinds] :
      \A p \in DOMAIN fs : p = "" => fs[p] = "unreadable" }

\* moduleTree.Nodes[id].Children; a missing key gives the zero depTreeNode.
ChildrenOf(tree, id) ==
  IF id \in DOMAIN tree.Nodes THEN tree.Nodes[id].Children ELSE <<>>

\* GraphNode.NodeHasLoop: an ancestor, reached over Parent, has the node's Id.
RECURSIVE AncestorHasId(_, _, _)
AncestorHasId(nodes, n, id) ==
  IF n = 0 THEN FALSE
  ELSE IF nodes[n].Id = id THEN TRUE
  ELSE AncestorHasId(nodes, nodes[n].Parent, id)

NodeHasLoop(nodes, n) == AncestorHasId(nodes, nodes[n].Parent, nodes[n].Id)

DtIdle ==
  /\ dtOutput = <<>>
  /\ dtFiles = [p \in {""} |-> "unreadable"]
  /\ dtPc = "idle"
  /\ dtReads = <<>>
  /\ dtModules = <<>>
  /\ dtErr = ""
  /\ dtNodes = <<>>
  /\ dtStack = <<>>
  /\ dtGraph = <<>>
  /\ dtUniqueSet = {}
  /\ dtUniqueDeps = {}

DtStart ==
  /\ dtOutput \in {SubSeq(DepTreePaths, 1, k) : k \in 0..MaxFiles}
  /\ dtFiles \in FileSystems(dtOutput)
  /\ dtPc = "parse"
  /\ dtReads = <<>>
  /\ dtModules = <<>>
  /\ dtErr = ""
  /\ dtNodes = <<>>
  /\ dtStack = <<>>
  /\ dtGraph = <<>>
  /\ dtUniqueSet = {}
  /\ dtUniqueDeps = {}

\* The loop of parseDepTreeFiles written to skip a file that fails instead of
\* returning the error.
parseDepTreeFileSkipFailed ==
  /\ dtPc = "parse"
  /\ Len(dtReads) < Len(outputFilePaths)
  /\ LET path == outputFilePaths[Len(dtReads) + 1]
     IN  /\ dtReads' = Append(dtReads, path)
         /\ IF dtFiles[path] = "tree"
              THEN \E tree \in ModuleDepTrees(MaxEdges - EdgesOfModules(dtModules)) :
                     dtModules' = Append(dtModules, tree)
              ELSE UNCHANGED dtModules
  /\ UNCHANGED <<dtOutput, dtFiles, dtErr, dtPc, dtNodes, dtStack, dtGraph,
                 dtUniqueSet, dtUniqueDeps>>
  /\ DtFrame

\* parseDepTreeFile on the next path (lines 230-236, 240-248). A failure
\* makes parseDepTreeFiles return nil and getGraphFromDepTree return at
\* line 195 with its named results untouched.
parseDepTreeFile ==
  /\ dtPc = "parse"
  /\ Len(dtReads) < Len(outputFilePaths)
  /\ LET path == outputFilePaths[Len(dtReads) + 1]
     IN  /\ dtReads' = Append(dtReads, path)
         /\ IF dtFiles[path] = "tree"
              THEN /\ \E tree \in ModuleDepTrees(MaxEdges - EdgesOfModules(dtModules)) :
                        dtModules' = Append(dtModules, tree)
                   /\ UNCHANGED <<dtErr, dtPc>>
              ELSE /\ dtModules' = <<>>
                   /\ dtErr' = IF dtFiles[path] = "unreadable" THEN "ReadError"
                                                                ELSE "DecodeError"
                   /\ dtPc' = "returned"
  /\ UNCHANGED <<dtOutput, dtFiles, dtNodes, dtStack, dtGraph, dtUniqueSet, dtUniqueDeps>>
  /\ DtFrame

\* Every path parsed (line 237): getGraphFromDepTree goes on at line 197.
parseDepTreeFilesDone ==
  /\ dtPc = "parse"
  /\ Len(dtReads) = Len(outputFilePaths)
  /\ dtPc' = "modules"
  /\ dtUniqueSet' = {}
  /\ UNCHANGED <<dtOutput, dtFiles, dtReads, dtModules, dtErr, dtNodes, dtStack, dtGraph,
                 dtUniqueDeps>>
  /\ DtFrame

\* Lines 198-203: the root node of the next module, and the call of
\* populateDependencyTree on it.
NewModuleRoot(tree) ==
  LET root == [Id |-> Gav(tree.Root), Parent |-> 0, Nodes |-> <<>>]
  IN  /\ dtNodes' = Append(dtNodes, root)
      /\ dtStack' = <<[node |-> Len(dtNodes) + 1, id |-> tree.Root, i |-> 1,
                       loop |-> FALSE]>>

getGraphFromDepTreeModule ==
  /\ dtPc = "modules"
  /\ Len(dtGraph) < Len(dtModules)
  /\ NewModuleRoot(dtModules[Len(dtGraph) + 1])
  /\ dtPc' = "populate"
  /\ UNCHANGED <<dtOutput, dtFiles, dtReads, dtModules, dtErr, dtGraph, dtUniqueSet,
                 dtUniqueDeps>>
  /\ DtFrame

\* The module whose tree is being populated.
CurrentTree == dtModules[Len(dtGraph) + 1]

\* The loop body written with the guard of the requested-by model: a child
\* whose id is already on the path is not created.
populateDependencyTreeChildGuarded ==
  /\ dtPc = "populate"
  /\ dtStack /= <<>>
  /\ LET top      == dtStack[Len(dtStack)]
         children == ChildrenOf(CurrentTree, top.id)
     IN  /\ ~top.loop
         /\ top.i <= Len(children)
         /\ LET childId   == children[top.i]
                childGav  == Gav(childId)
                childNode == [Id |-> childGav, Parent |-> top.node, Nodes |-> <<>>]
                nodes2    == Append(dtNodes, childNode)
                c         == Len(dtNodes) + 1
            IN  IF NodeHasLoop(nodes2, c)
                  THEN /\ dtStack' = [dtStack EXCEPT ![Len(dtStack)].i = @ + 1]
                       /\ UNCHANGED <<dtNodes, dtUniqueSet>>
                  ELSE /\ dtNodes' = nodes2
                       /\ dtUniqueSet' = dtUniqueSet \cup {childGav}
                       /\ dtStack' = Append(dtStack,
                                       [node |-> c, id |-> childId, i |-> 1,
                                        loop |-> FALSE])
  /\ UNCHANGED <<dtOutput, dtFiles, dtPc, dtReads, dtModules, dtErr, dtGraph, dtUniqueDeps>>
  /\ DtFrame

\* Lines 214-222 for the next child id, up to and including the callee's
\* NodeHasLoop test (line 211).
populateDependencyTreeChild ==
  /\ dtPc = "populate"
  /\ dtStack /= <<>>
  /\ LET top      == dtStack[Len(dtStack)]
         children == ChildrenOf(CurrentTree, top.id)
     IN  /\ ~top.loop
         /\ top.i <= Len(children)
         /\ LET childId   == children[top.i]
                childGav  == Gav(childId)
                childNode == [Id |-> childGav, Parent |-> top.node, Nodes |-> <<>>]
                nodes2    == Append(dtNodes, childNode)
                c         == Len(dtNodes) + 1
            IN  /\ dtNodes' = nodes2
                /\ dtUniqueSet' = dtUniqueSet \cup {childGav}
                /\ dtStack' = Append(dtStack,
                                [node |-> c, id |-> childId, i |-> 1,
                                 loop |-> NodeHasLoop(nodes2, c)])
  /\ UNCHANGED <<dtOutput, dtFiles, dtPc, dtReads, dtModules, dtErr, dtGraph, dtUniqueDeps>>
  /\ DtFrame

\* A call returns (lines 212, 225); the caller appends the child it built
\* (line 223), or, for a root, getGraphFromDepTree appends the tree (line 204).
populateDependencyTreeReturn ==
  /\ dtPc = "populate"
  /\ dtStack /= <<>>
  /\ LET top == dtStack[Len(dtStack)]
         n   == Len(dtStack)
     IN  /\ top.loop \/ top.i > Len(ChildrenOf(CurrentTree, top.id))
         /\ IF n = 1
              THEN /\ dtGraph' = Append(dtGraph, top.node)
                   /\ dtStack' = <<>>
                   /\ dtPc' = "modules"
                   /\ UNCHANGED dtNodes
              ELSE LET caller == dtStack[n - 1]
                   IN  /\ dtNodes' = [dtNodes EXCEPT ![caller.node].Nodes =
                                        Append(@, top.node)]
                       /\ dtStack' = [SubSeq(dtStack, 1, n - 1) EXCEPT ![n - 1].i = @ + 1]
                       /\ UNCHANGED <<dtGraph, dtPc>>
  /\ UNCHANGED <<dtOutput, dtFiles, dtReads, dtModules, dtErr, dtUniqueSet, dtUniqueDeps>>
  /\ DtFrame

\* Lines 206-207.
getGraphFromDepTreeReturn ==
  /\ dtPc = "modules"
  /\ Len(dtGraph) = Len(dtModules)
  /\ dtUniqueDeps' = dtUniqueSet
  /\ dtPc' = "returned"
  /\ UNCHANGED <<dtOutput, dtFiles, dtReads, dtModules, dtErr, dtNodes, dtStack, dtGraph,
                 dtUniqueSet>>
  /\ DtFrame

DtStep ==
  \/ parseDepTreeFile
  \/ parseDepTreeFilesDone
  \/ getGraphFromDepTreeModule
  \/ populateDependencyTreeChild
  \/ populateDependencyTreeReturn
  \/ getGraphFromDepTreeReturn

(***************************************************************************)
(* createGavDependencyTree: the requested-by model                         *)
(***************************************************************************)

\* Bound of the build-info explored: dependency records over all modules.
MaxDeps == 3

\* The ids of the build's modules, by position in generatedBuildsInfos[0].Modules.
GavModuleIds == <<"m", "a">>

\* Raw coordinates: the module ids and the dependency ids.
GavIds == {"m", "a", "b", "c"}

\* Requested-by chains, immediate requester first.
ChainNone == <<>>
ChainM == <<"m">>
ChainA == <<"a">>
ChainB == <<"b", "m">>

\* The dependency records a module may list. The RequestedBy values take
\* every branch of isDirectDependency and of the loop at line 88: no chain,
\* an empty first chain, the module as a requester (in the first or in a
\* later chain), one or two other requesters, an empty chain after a
\* non-empty one, a record naming its own id as requester, and records with
\* the id of the first module. Lists may repeat an id in several records.
GavDependencies ==
  << [Id |-> "a", RequestedBy |-> <<>>],
     [Id |-> "a", RequestedBy |-> <<ChainM>>],
     [Id |-> "a", RequestedBy |-> <<ChainNone>>],
     [Id |-> "a", RequestedBy |-> <<ChainB>>],
     [Id |-> "a", RequestedBy |-> <<ChainA>>],
     [Id |-> "a", RequestedBy |-> <<ChainM, ChainB>>],
     [Id |-> "b", RequestedBy |-> <<>>],
     [Id |-> "b", RequestedBy |-> <<ChainB>>],
     [Id |-> "b", RequestedBy |-> <<ChainA>>],
     [Id |-> "b", RequestedBy |-> <<ChainA, ChainB>>],
     [Id |-> "b", RequestedBy |-> <<ChainA, ChainM>>],
     [Id |-> "b", RequestedBy |-> <<ChainA, ChainNone>>],
     [Id |-> "b", RequestedBy |-> <<ChainNone, ChainA>>],
     [Id |-> "b", RequestedBy |-> <<ChainM, ChainNone>>],
     [Id |-> "c", RequestedBy |-> <<>>],
     [Id |-> "c", RequestedBy |-> <<ChainA>>],
     [Id |-> "c", RequestedBy |-> <<ChainB>>],
     [Id |-> "c", RequestedBy |-> <<ChainA, ChainB>>],
     [Id |-> "m", RequestedBy |-> <<>>],
     [Id |-> "m", RequestedBy |-> <<ChainM>>],
     [Id |-> "m", RequestedBy |-> <<ChainA>>] >>

\* The dependency lists of n records, as multisets: one list per multiset,
\* and the loop at line 80 meets its records in any order.
DependencyLists(n) ==
  { [k \in 1..n |-> GavDependencies[s[k]]] :
      s \in { t \in [1..n -> 1..Len(GavDependencies)] :
                \A k \in 1..n : k < n => t[k] <= t[k + 1] } }

GavModule(k, deps) == [Id |-> GavModuleIds[k], Dependencies |-> deps]

\* generatedBuildsInfos[0].Modules: no module, one module of at most MaxDeps
\* records, or two modules of at most MaxDeps - 1 records in all.
GavBuilds ==
  {<<>>}
    \cup UNION { {<<GavModule(1, d)>> : d \in DependencyLists(n)} : n \in 0..MaxDeps }
    \cup UNION { UNION { {<<GavModule(1, d1), GavModule(2, d2)>> :
                            d1 \in DependencyLists(n1), d2 \in DependencyLists(n2)} :
                          n2 \in 0..(MaxDeps - 1 - n1) } : n1 \in 0..(MaxDeps - 1) }

\* isDirectDependency, lines 105-111: the chains in order; directParent[0]
\* of an empty chain is an index out of range.
RECURSIVE directParentScan(_, _, _)
directParentScan(moduleId, requestedBy, k) ==
  IF k > Len(requestedBy) THEN "false"
  ELSE IF Len(requestedBy[k]) = 0 THEN "panic"
  ELSE IF requestedBy[k][1] = moduleId THEN "true"
  ELSE directParentScan(moduleId, requestedBy, k + 1)

\* isDirectDependency: "true", "false", or "panic" when the runtime stops it.
isDirectDependency(moduleId, requestedBy) ==
  IF Len(requestedBy) = 0 \/ Len(requestedBy[1]) = 0
    THEN "true"
    ELSE directParentScan(moduleId, requestedBy, 1)

\* dependencyMultimap.putChild written to replace the parent's children.
putChildReplacing(multimap, parent, child) ==
  (parent :> (child.Id :> child)) @@ multimap

\* dependencyMultimap.putChild.
putChild(multimap, parent, child) ==
  IF parent \in DOMAIN multimap
    THEN [multimap EXCEPT ![parent] = (child.Id :> child) @@ @]
    ELSE (parent :> (child.Id :> child)) @@ multimap

\* dependencyMultimap.getChildren; a missing parent gives the nil map.
getChildren(multimap, parent) ==
  IF parent \in DOMAIN multimap THEN multimap[parent] ELSE <<>>

\* Lines 88-91: one putChild per chain, under the chain's first element.
RECURSIVE putChildren(_, _, _, _)
putChildren(multimap, requestedBy, k, child) ==
  IF k > Len(requestedBy) THEN multimap
  ELSE putChildren(putChild(multimap, Gav(requestedBy[k][1]), child),
                   requestedBy, k + 1, child)

\* hasLoop.
hasLoop(idsAdded, idToAdd) == \E k \in 1..Len(idsAdded) : idsAdded[k] = idToAdd

GavReset ==
  /\ gavPc = "modules"
  /\ gavTrees = <<>>
  /\ gavModuleTree = 0
  /\ gavNodes = <<>>
  /\ gavTodo = {}
  /\ gavDirect = <<>>
  /\ gavMultimap = <<>>
  /\ gavDirectTodo = {}
  /\ gavStack = <<>>
  /\ gavUniqueSet = {}
  /\ gavUniqueDeps = {}

GavIdle ==
  /\ gavModules = <<>>
  /\ gavPc = "idle"
  /\ gavTrees = <<>>
  /\ gavModuleTree = 0
  /\ gavNodes = <<>>
  /\ gavTodo = {}
  /\ gavDirect = <<>>
  /\ gavMultimap = <<>>
  /\ gavDirectTodo = {}
  /\ gavStack = <<>>
  /\ gavUniqueSet = {}
  /\ gavUniqueDeps = {}
  /\ gavRun = 1
  /\ gavFirst = <<>>

GavStart ==
  /\ gavModules \in GavBuilds
  /\ GavReset
  /\ gavRun = 1
  /\ gavFirst = <<>>

\* The module addModuleTree is working on.
CurrentModule == gavModules[Len(gavTrees) + 1]

\* Lines 74-79 written without the Add of the module's own id.
addModuleTreeRootNotCounted ==
  /\ gavPc = "modules"
  /\ Len(gavTrees) < Len(gavModules)
  /\ gavNodes' = Append(gavNodes, [Id |-> Gav(CurrentModule.Id), Nodes |-> <<>>])
  /\ gavModuleTree' = Len(gavNodes) + 1
  /\ gavDirect' = <<>>
  /\ gavMultimap' = <<>>
  /\ gavTodo' = 1..Len(CurrentModule.Dependencies)
  /\ gavPc' = "classify"
  /\ UNCHANGED <<gavModules, gavTrees, gavDirectTodo, gavStack, gavUniqueSet,
                 gavUniqueDeps, gavRun, gavFirst>>
  /\ GavFrame

\* Lines 66-67 and 74-79: the next module's root node, counted in the
\* unique ids, and the two empty maps.
addModuleTree ==
  /\ gavPc = "modules"
  /\ Len(gavTrees) < Len(gavModules)
  /\ gavNodes' = Append(gavNodes, [Id |-> Gav(CurrentModule.Id), Nodes |-> <<>>])
  /\ gavModuleTree' = Len(gavNodes) + 1
  /\ gavUniqueSet' = gavUniqueSet \cup {Gav(CurrentModule.Id)}
  /\ gavDirect' = <<>>
  /\ gavMultimap' = <<>>
  /\ gavTodo' = 1..Len(CurrentModule.Dependencies)
  /\ gavPc' = "classify"
  /\ UNCHANGED <<gavModules, gavTrees, gavDirectTodo, gavStack, gavUniqueDeps,
                 gavRun, gavFirst>>
  /\ GavFrame

\* Lines 80-92 for one record: direct, or a child of each of its requesters.
classifyDependency ==
  /\ gavPc = "classify"
  /\ \E index \in gavTodo :
       LET dependency == CurrentModule.Dependencies[index]
           requestedBy == dependency.RequestedBy
           direct == isDirectDependency(CurrentModule.Id, requestedBy)
       IN  /\ gavTodo' = gavTodo \ {index}
           /\ IF direct = "panic"
                THEN /\ gavPc' = "panic"
                     /\ UNCHANGED <<gavDirect, gavMultimap>>
                ELSE IF direct = "true"
                THEN /\ gavDirect' = (dependency.Id :> dependency) @@ gavDirect
                     /\ UNCHANGED <<gavPc, gavMultimap>>
                ELSE IF \E k \in 1..Len(requestedBy) : Len(requestedBy[k]) = 0
                THEN /\ gavPc' = "panic"
                     /\ UNCHANGED <<gavDirect, gavMultimap>>
                ELSE /\ gavMultimap' = putChildren(gavMultimap, requestedBy, 1, dependency)
                     /\ UNCHANGED <<gavPc, gavDirect>>
  /\ UNCHANGED <<gavModules, gavTrees, gavModuleTree, gavNodes, gavDirectTodo, gavStack,
                 gavUniqueSet, gavUniqueDeps, gavRun, gavFirst>>
  /\ GavFrame

\* Line 94: the range over directDependencies starts.
rangeDirectDependencies ==
  /\ gavPc = "classify"
  /\ gavTodo = {}
  /\ gavDirectTodo' = DOMAIN gavDirect
  /\ gavPc' = "populate"
  /\ UNCHANGED <<gavModules, gavTrees, gavModuleTree, gavNodes, gavTodo, gavDirect, gavMultimap,
                 gavStack, gavUniqueSet, gavUniqueDeps, gavRun, gavFirst>>
  /\ GavFrame

\* A call of populateTransitiveDependencies, lines 115-124: nothing when the
\* id is on the path, else a new node, counted, appended to its parent, and
\* the range over its children about to start.
populateCall(parent, dependencyId, idsAdded, stack) ==
  IF hasLoop(idsAdded, dependencyId)
    THEN /\ gavStack' = stack
         /\ UNCHANGED <<gavNodes, gavUniqueSet>>
    ELSE LET node == [Id |-> Gav(dependencyId), Nodes |-> <<>>]
             n    == Len(gavNodes) + 1
         IN  /\ gavNodes' = Append([gavNodes EXCEPT ![parent].Nodes = Append(@, n)], node)
             /\ gavUniqueSet' = gavUniqueSet \cup {node.Id}
             /\ gavStack' = Append(stack,
                              [node |-> n, idsAdded |-> Append(idsAdded, dependencyId),
                               todo |-> DOMAIN getChildren(gavMultimap, node.Id)])

\* Lines 94-96 written to leave the range after the first direct dependency.
populateDirectDependencyOnlyFirst ==
  /\ gavPc = "populate"
  /\ gavStack = <<>>
  /\ \E id \in gavDirectTodo :
       /\ gavDirectTodo' = {}
       /\ populateCall(gavModuleTree, gavDirect[id].Id, <<>>, gavStack)
  /\ UNCHANGED <<gavModules, gavPc, gavTrees, gavModuleTree, gavTodo, gavDirect, gavMultimap,
                 gavUniqueDeps, gavRun, gavFirst>>
  /\ GavFrame

\* Lines 94-95: the next direct dependency, in the map's order.
populateDirectDependency ==
  /\ gavPc = "populate"
  /\ gavStack = <<>>
  /\ \E id \in gavDirectTodo :
       /\ gavDirectTodo' = gavDirectTodo \ {id}
       /\ populateCall(gavModuleTree, gavDirect[id].Id, <<>>, gavStack)
  /\ UNCHANGED <<gavModules, gavPc, gavTrees, gavModuleTree, gavTodo, gavDirect, gavMultimap,
                 gavUniqueDeps, gavRun, gavFirst>>
  /\ GavFrame

\* Lines 125-126: the next child of the innermost node, in the map's order.
populateTransitiveDependencies ==
  /\ gavPc = "populate"
  /\ gavStack /= <<>>
  /\ LET top == gavStack[Len(gavStack)]
     IN  \E id \in top.todo :
           LET child == getChildren(gavMultimap, gavNodes[top.node].Id)[id]
           IN  populateCall(top.node, child.Id, top.idsAdded,
                            [gavStack EXCEPT ![Len(gavStack)].todo = @ \ {id}])
  /\ UNCHANGED <<gavModules, gavPc, gavTrees, gavModuleTree, gavTodo, gavDirect, gavMultimap,
                 gavDirectTodo, gavUniqueDeps, gavRun, gavFirst>>
  /\ GavFrame

\* Line 128: the innermost call returns.
populateReturn ==
  /\ gavPc = "populate"
  /\ gavStack /= <<>>
  /\ gavStack[Len(gavStack)].todo = {}
  /\ gavStack' = SubSeq(gavStack, 1, Len(gavStack) - 1)
  /\ UNCHANGED <<gavModules, gavPc, gavTrees, gavModuleTree, gavNodes, gavTodo, gavDirect,
                 gavMultimap, gavDirectTodo, gavUniqueSet, gavUniqueDeps, gavRun,
                 gavFirst>>
  /\ GavFrame

\* Lines 97 and 67: addModuleTree returns the tree, which is appended.
addModuleTreeReturn ==
  /\ gavPc = "populate"
  /\ gavStack = <<>>
  /\ gavDirectTodo = {}
  /\ gavTrees' = Append(gavTrees, gavModuleTree)
  /\ gavPc' = "modules"
  /\ UNCHANGED <<gavModules, gavModuleTree, gavNodes, gavTodo, gavDirect, gavMultimap,
                 gavDirectTodo, gavStack, gavUniqueSet, gavUniqueDeps, gavRun,
                 gavFirst>>
  /\ GavFrame

\* Line 70.
createGavDependencyTreeReturn ==
  /\ gavPc = "modules"
  /\ Len(gavTrees) = Len(gavModules)
  /\ gavUniqueDeps' = gavUniqueSet
  /\ gavPc' = "returned"
  /\ UNCHANGED <<gavModules, gavTrees, gavModuleTree, gavNodes, gavTodo, gavDirect, gavMultimap,
                 gavDirectTodo, gavStack, gavUniqueSet, gavRun, gavFirst>>
  /\ GavFrame

\* createGavDependencyTree is called a second time on the same build-info;
\* what the first call returned is kept for comparison.
createGavDependencyTreeAgain ==
  /\ gavPc = "returned"
  /\ gavRun = 1
  /\ gavRun' = 2
  /\ gavFirst' = <<[trees |-> gavTrees, nodes |-> gavNodes, uniqueDeps |-> gavUniqueDeps]>>
  /\ gavPc' = "modules"
  /\ gavTrees' = <<>>
  /\ gavModuleTree' = 0
  /\ gavNodes' = <<>>
  /\ gavTodo' = {}
  /\ gavDirect' = <<>>
  /\ gavMultimap' = <<>>
  /\ gavDirectTodo' = {}
  /\ gavStack' = <<>>
  /\ gavUniqueSet' = {}
  /\ gavUniqueDeps' = {}
  /\ UNCHANGED gavModules
  /\ GavFrame

GavStep ==
  \/ addModuleTree
  \/ classifyDependency
  \/ rangeDirectDependencies
  \/ populateDirectDependency
  \/ populateTransitiveDependencies
  \/ populateReturn
  \/ addModuleTreeReturn
  \/ createGavDependencyTreeReturn
  \/ createGavDependencyTreeAgain

(***************************************************************************)
(* Specifications                                                          *)
(***************************************************************************)

InitJas == JasStart /\ DtIdle /\ GavIdle

SpecJas == InitJas /\ [][JasStep]_vars

InitDepTree == DtStart /\ JasIdle /\ GavIdle

SpecDepTree == InitDepTree /\ [][DtStep]_vars

InitGav == GavStart /\ JasIdle /\ DtIdle

SpecGav == InitGav /\ [][GavStep]_vars

(***************************************************************************)
(* Statements                                                              *)
(***************************************************************************)

\* ---- the plugin-tree model

\* The nodes of the tree under n, n included.
RECURSIVE Subtree(_, _)
Subtree(nodes, n) ==
  {n} \cup UNION {Subtree(nodes, nodes[n].Nodes[k]) : k \in 1..Len(nodes[n].Nodes)}

\* The nodes of all returned trees, and their Ids.
DtGraphNodes == UNION {Subtree(dtNodes, dtGraph[k]) : k \in 1..Len(dtGraph)}

DtGraphIds == {dtNodes[n].Id : n \in DtGraphNodes}

\* The root above a node, and the module tree that root was built from.
RECURSIVE RootOf(_, _)
RootOf(nodes, n) == IF nodes[n].Parent = 0 THEN n ELSE RootOf(nodes, nodes[n].Parent)

DtTreeOf(n) ==
  dtModules[CHOOSE k \in 1..Len(dtGraph) : dtGraph[k] = RootOf(dtNodes, n)]

\* The raw coordinate a node Id was formed from.
DtRawId(id) == CHOOSE raw \in DepTreeIds : Gav(raw) = id

\* Positions of the listed paths that do not hold a module tree.
DtFailing == {k \in 1..Len(outputFilePaths) : dtFiles[outputFilePaths[k]] /= "tree"}

Min(S) == CHOOSE k \in S : \A j \in S : k <= j

\* C2: when getGraphFromDepTree returns without error, the returned unique
\* ids, as a set, are the Ids of all nodes of all returned trees, the roots
\* included.
C2_UniqueDepsAreGraphIds ==
  (dtPc = "returned" /\ dtErr = "") => dtUniqueDeps = DtGraphIds

\* C6: when some listed path is unreadable or holds invalid JSON, the call
\* returns an error, an empty graph and an empty unique-id list, and the
\* reads made are exactly those up to the first failing path.
C6_FirstFailureAborts ==
  (dtPc = "returned" /\ DtFailing /= {}) =>
    /\ dtErr /= ""
    /\ dtGraph = <<>>
    /\ dtUniqueDeps = {}
    /\ dtReads = SubSeq(outputFilePaths, 1, Min(DtFailing))

\* Two paths, the first holding a module tree and the second invalid JSON:
\* the call has returned after reading both.
C6_Witness ==
  /\ dtPc = "returned"
  /\ Len(dtOutput) = 2
  /\ dtFiles[dtOutput[1]] = "tree"
  /\ dtFiles[dtOutput[2]] = "invalid"
  /\ dtReads = dtOutput

\* C9: populateDependencyTree never stops short of returning and never
\* nests deeper than one call per distinct id plus one; and in the returned
\* graph a node that repeats the Id of an ancestor is attached to its Parent
\* and counted in the unique ids but has no children, while every other
\* node has one child per entry of Nodes[its raw id].Children, in that
\* order (none when the id is no key of Nodes).
C9_PluginTreeShape ==
  /\ dtPc \in {"parse", "modules", "populate"} => ENABLED DtStep
  /\ Len(dtStack) <= Cardinality(DepTreeIds) + 1
  /\ (dtPc = "returned" /\ dtErr = "") =>
       \A n \in DtGraphNodes :
         IF NodeHasLoop(dtNodes, n)
           THEN /\ dtNodes[n].Nodes = <<>>
                /\ dtNodes[n].Id \in dtUniqueDeps
                /\ \E k \in 1..Len(dtNodes[dtNodes[n].Parent].Nodes) :
                     dtNodes[dtNodes[n].Parent].Nodes[k] = n
           ELSE LET listed == ChildrenOf(DtTreeOf(n), DtRawId(dtNodes[n].Id))
                IN  /\ Len(dtNodes[n].Nodes) = Len(listed)
                    /\ \A k \in 1..Len(listed) :
                         /\ dtNodes[dtNodes[n].Nodes[k]].Id = Gav(listed[k])
                         /\ dtNodes[dtNodes[n].Nodes[k]].Parent = n

\* A returned graph holding a node that repeats an ancestor's Id, a node
\* whose id is no key of Nodes, and a node with two children.
C9_Witness ==
  /\ dtPc = "returned"
  /\ dtErr = ""
  /\ \E n \in DtGraphNodes : NodeHasLoop(dtNodes, n)
  /\ \E n \in DtGraphNodes :
       /\ ~NodeHasLoop(dtNodes, n)
       /\ DtRawId(dtNodes[n].Id) \notin DOMAIN DtTreeOf(n).Nodes
  /\ \E n \in DtGraphNodes : Len(dtNodes[n].Nodes) = 2

\* ---- the requested-by model

GavHeap == 1..Len(gavNodes)

\* The Ids of the tree under root number k, and of all returned trees.
GavTreeIds(nodes, trees, k) == {nodes[n].Id : n \in Subtree(nodes, trees[k])}

GavGraphIds == UNION {GavTreeIds(gavNodes, gavTrees, k) : k \in 1..Len(gavTrees)}

\* The Ids of the children of n, in order.
ChildIds(nodes, n) == [k \in 1..Len(nodes[n].Nodes) |-> nodes[nodes[n].Nodes[k]].Id]

NoRepeats(s) == \A j, k \in 1..Len(s) : j /= k => s[j] /= s[k]

\* The number of nodes on the longest path down from n.
RECURSIVE Height(_, _)
Height(nodes, n) ==
  LET below == {Height(nodes, nodes[n].Nodes[k]) : k \in 1..Len(nodes[n].Nodes)}
  IN  IF below = {} THEN 1 ELSE 1 + CHOOSE h \in below : \A g \in below : g <= h

\* The raw coordinate a node Id was formed from.
GavRawId(id) == CHOOSE raw \in GavIds : Gav(raw) = id

\* The immediate requesters a record names: the first element of each of its
\* non-empty chains.
Requesters(d) ==
  {d.RequestedBy[k][1] : k \in {j \in 1..Len(d.RequestedBy) : Len(d.RequestedBy[j]) > 0}}

\* Direct, as the data model words it: no chain, an empty first chain, or
\* the module as the immediate requester of some chain.
DirectlyRequested(moduleId, d) ==
  \/ Len(d.RequestedBy) = 0
  \/ Len(d.RequestedBy[1]) = 0
  \/ moduleId \in Requesters(d)

\* requester -> requested, over the records of a module.
RequestedEdges(module) ==
  {e \in GavIds \X GavIds :
     \E k \in 1..Len(module.Dependencies) :
       /\ module.Dependencies[k].Id = e[2]
       /\ e[1] \in Requesters(module.Dependencies[k])}

RECURSIVE CanReach(_, _, _, _)
CanReach(edges, from, to, steps) ==
  /\ steps > 0
  /\ \E e \in edges :
       /\ e[1] = from
       /\ e[2] = to \/ CanReach(edges, e[2], to, steps - 1)

\* No requested-by chain of the module leads from an id back to itself.
WithoutCycles(module) ==
  \A x \in GavIds : ~CanReach(RequestedEdges(module), x, x, Cardinality(GavIds))

DistinctDependencyIds(module) ==
  {module.Dependencies[k].Id : k \in 1..Len(module.Dependencies)}

DependenciesOf(module) == Range(module.Dependencies)

\* C1: the unique-id set holds exactly the Ids of the nodes created so far,
\* and when createGavDependencyTree returns, the returned unique ids, as a
\* set, are exactly the Ids of all nodes of all returned trees.
C1_UniqueDepsAreGraphIds ==
  /\ gavUniqueSet = {gavNodes[n].Id : n \in GavHeap}
  /\ gavPc = "returned" => gavUniqueDeps = GavGraphIds

\* Two modules returned, one tree three nodes deep, and an Id found in both
\* trees.
C1_Witness ==
  /\ gavPc = "returned"
  /\ Len(gavTrees) = 2
  /\ Height(gavNodes, gavTrees[1]) = 3
  /\ GavTreeIds(gavNodes, gavTrees, 1) \cap GavTreeIds(gavNodes, gavTrees, 2) /= {}

\* The depth of every tree built so far is at most the number of distinct
\* dependency ids of its module plus one, and a call that has not returned
\* and has not been stopped by the runtime can take a step.
GavCycleSafe ==
  /\ gavPc \in {"modules", "classify", "populate"} => ENABLED GavStep
  /\ \A k \in 1..Len(gavTrees) :
       Height(gavNodes, gavTrees[k]) <= Cardinality(DistinctDependencyIds(gavModules[k])) + 1
  /\ gavModuleTree /= 0 =>
       Height(gavNodes, gavModuleTree) <=
         Cardinality(DistinctDependencyIds(gavModules[
           IF gavPc \in {"classify", "populate", "panic"} THEN Len(gavTrees) + 1
                                                           ELSE Len(gavTrees)])) + 1

\* C3: for every dependency list addModuleTree returns (it is never stopped
\* before returning), and the tree is at most as deep as the number of
\* distinct dependency ids plus one.
C3_ReturnsWithBoundedDepth == gavPc /= "panic" /\ GavCycleSafe

\* No node below the root of a tree has a proper descendant with its Id.
GavNoRepeatBelow(n) ==
  \A d \in Subtree(gavNodes, n) \ {n} : gavNodes[d].Id /= gavNodes[n].Id

GavNoRepeatUnderDependencies ==
  \A n \in GavHeap : (\A k \in 1..Len(gavTrees) : gavTrees[k] /= n) /\ n /= gavModuleTree
                       => GavNoRepeatBelow(n)

\* C4: no node of a tree, the module root included, has a proper descendant
\* with the same Id.
C4_NoDescendantWithSameId == \A n \in GavHeap : GavNoRepeatBelow(n)

\* The children of n are, one each, the ids in wanted.
HasExactlyChildren(n, wanted) ==
  /\ NoRepeats(ChildIds(gavNodes, n))
  /\ Range(ChildIds(gavNodes, n)) = wanted

\* C5 as stated: in a returned tree of a module without cycles, every node
\* with raw id p has exactly one child per dependency that names p as an
\* immediate requester, whether or not the module requests it directly too,
\* and no other child (for the root: per dependency the module requests
\* directly, an empty RequestedBy or first chain included).
C5_ChildrenAreAllRequested ==
  gavPc = "returned" =>
    \A k \in 1..Len(gavTrees) :
      WithoutCycles(gavModules[k]) =>
        \A n \in Subtree(gavNodes, gavTrees[k]) :
          IF n = gavTrees[k]
            THEN HasExactlyChildren(n,
                   {Gav(d.Id) : d \in {e \in DependenciesOf(gavModules[k]) :
                                         DirectlyRequested(gavModules[k].Id, e)}})
            ELSE HasExactlyChildren(n,
                   {Gav(d.Id) : d \in {e \in DependenciesOf(gavModules[k]) :
                                         GavRawId(gavNodes[n].Id) \in Requesters(e)}})

\* C5 as amended: in a returned tree of a module without cycles, the root
\* has exactly one child per distinct id of a direct dependency, and every
\* other node with raw id p has exactly one child per distinct id of a
\* dependency record that is not direct and names p as an immediate
\* requester; neither has other children.
C5_ChildrenAreIndirectRequested ==
  gavPc = "returned" =>
    \A k \in 1..Len(gavTrees) :
      WithoutCycles(gavModules[k]) =>
        \A n \in Subtree(gavNodes, gavTrees[k]) :
          IF n = gavTrees[k]
            THEN HasExactlyChildren(n,
                   {Gav(d.Id) : d \in {e \in DependenciesOf(gavModules[k]) :
                                         DirectlyRequested(gavModules[k].Id, e)}})
            ELSE HasExactlyChildren(n,
                   {Gav(d.Id) : d \in {e \in DependenciesOf(gavModules[k]) :
                                         /\ ~DirectlyRequested(gavModules[k].Id, e)
                                         /\ GavRawId(gavNodes[n].Id) \in Requesters(e)}})

\* A returned tree of a module without cycles in which "c", requested by
\* "a" and by "b", hangs once under each of them.
C5_Witness ==
  /\ gavPc = "returned"
  /\ Len(gavTrees) = 1
  /\ WithoutCycles(gavModules[1])
  /\ \E na, nb \in Subtree(gavNodes, gavTrees[1]) :
       /\ gavNodes[na].Id = Gav("a")
       /\ gavNodes[nb].Id = Gav("b")
       /\ ChildIds(gavNodes, na) = <<Gav("c")>>
       /\ ChildIds(gavNodes, nb) = <<Gav("c")>>

\* C7: when the second call on the same build-info returns, it returns as
\* many trees as the first, each with the same set of node Ids as its
\* counterpart, and the same set of unique ids.
C7_SecondRunSameIds ==
  (gavPc = "returned" /\ gavRun = 2) =>
    /\ Len(gavTrees) = Len(gavFirst[1].trees)
    /\ \A k \in 1..Len(gavTrees) :
         GavTreeIds(gavNodes, gavTrees, k) =
           GavTreeIds(gavFirst[1].nodes, gavFirst[1].trees, k)
    /\ gavUniqueDeps = gavFirst[1].uniqueDeps

\* The second call has returned, having built its nodes in another order
\* than the first, in a tree with a transitive dependency.
C7_Witness ==
  /\ gavPc = "returned"
  /\ gavRun = 2
  /\ gavNodes /= gavFirst[1].nodes
  /\ \E k \in 1..Len(gavTrees) : Height(gavNodes, gavTrees[k]) >= 3

\* In every returned tree the root has one child per distinct id of a
\* directly requested dependency, and no other child.
GavDirectPartition ==
  \A k \in 1..Len(gavTrees) :
    HasExactlyChildren(gavTrees[k],
      {Gav(d.Id) : d \in {e \in DependenciesOf(gavModules[k]) :
                            DirectlyRequested(gavModules[k].Id, e)}})

\* C8: whatever the shape of RequestedBy, classification completes for
\* every dependency, and the root's children are, one each, the directly
\* requested dependencies.
C8_ClassificationCompletes == gavPc /= "panic" /\ GavDirectPartition

\* ---- helpers for the statements about the runner

Count(s, x) == Cardinality({i \in 1..Len(s) : s[i] = x})

ScansCalled == {n \in ScanNames : Count(jasCalls, n) > 0}

ScannerCreated == Count(jasCalls, "NewJasScanner") = 1 /\ ~jasEnv.newScannerErr

SomeCalledScanFailed == \E n \in ScansCalled : jasEnv.scanErr[n]

\* C10: when the function has returned: if the scanner was created the
\* cleanup function was called exactly once and is the last call made (so it
\* follows the last scan that ran), and err is non-nil exactly when a scan
\* that ran failed or the cleanup failed; if the server details are missing,
\* the Url is empty or the scanner could not be created, no scan ran and the
\* cleanup was not called.
C10_CleanupOnceAfterScans ==
  jasPc = "returned" =>
    IF ScannerCreated
      THEN /\ Count(jasCalls, "cleanup") = 1
           /\ jasCalls[Len(jasCalls)] = "cleanup"
           /\ (jasErr /= <<>>) <=> (SomeCalledScanFailed \/ jasEnv.cleanupErr)
      ELSE /\ ScansCalled = {}
           /\ Count(jasCalls, "cleanup") = 0

\* A run in which the secrets scan failed after the applicability scan
\* succeeded, the cleanup failed too, and the function has returned.
C10_Witness ==
  /\ jasPc = "returned"
  /\ jasCalls = <<"NewJasScanner", "applicability", "secrets", "cleanup">>
  /\ jasErr = <<"secrets", "cleanup">>

====
